---- MODULE Spec2Model ----
(***************************************************************************)
(* Model of src/helper/options.c: the start-up option processor           *)
(* (parse_cmdline_args), the default script-directory builder             *)
(* (add_default_dirs) and the executable locator (find_exe_path).         *)
(*                                                                         *)
(* A C string is a sequence of tokens; a token stands for one or more     *)
(* characters that the code never splits ("/" and "\\" are tokens of      *)
(* their own, so strrchr, find_suffix and the separator conversion are    *)
(* computed as the code computes them).  A null pointer is NULL.          *)
(***************************************************************************)
EXTENDS Integers, Sequences, FiniteSets, TLC

VARIABLES
    build,               \* compile-time configuration: _WIN32, NUVOTON_CUSTOMIZED
    env,                 \* process environment and file system answers
    argv,                \* argv[1..argc-1], each element a string
    optind,              \* getopt: index of the next argv element to scan
    nextchar,            \* getopt: position inside a cluster of short options, 0 if none
    help_flag,           \* options.c:40
    version_flag,        \* options.c:40
    config_commands,     \* the deferred queue behind add_config_command
    script_search_dirs,  \* the list behind add_script_search_dir
    trace,               \* calls of command_run_line and of the log, in order
    run_failed,          \* some call of command_run_line reported a failure
    opts,                \* what getopt_long has returned so far: c, optarg, flag stored
    run_prefix,          \* add_default_dirs: the run_prefix it computed
    default_calls,       \* number of calls of add_default_dirs
    pc,                  \* "parsing", "exited", "returned" or "crashed"
    status               \* exit status, or the value returned

vars == <<build, env, argv, optind, nextchar, help_flag, version_flag,
          config_commands, script_search_dirs, trace, run_failed, opts,
          run_prefix, default_calls, pc, status>>

-----------------------------------------------------------------------------
(* C strings *)

NULL == <<"(null)">>

ERROR_OK == 0

\* strrchr(s, ch): index of the last ch in s, 0 when there is none
RECURSIVE strrchr(_, _)
strrchr(s, ch) ==
    IF s = <<>> THEN 0
    ELSE IF s[Len(s)] = ch THEN Len(s)
    ELSE strrchr(SubSeq(s, 1, Len(s) - 1), ch)

\* the string that remains when s[i] is overwritten by '\0'
Truncate(s, i) == SubSeq(s, 1, i - 1)

-----------------------------------------------------------------------------
(* getopt_long(argc, argv, "hvd::l:f:s:c:p", long_options, &option_index)   *)
(* with GNU argument permutation: the calls skip the non-option elements,   *)
(* which parse_cmdline_args never reads, and "--" ends the options.  A long *)
(* name is matched exactly.                                                 *)

no_argument == "no_argument"
required_argument == "required_argument"
optional_argument == "optional_argument"

C_END == "-1"     \* getopt_long returned -1
C_FLAG == "0"     \* getopt_long stored val in *flag and returned 0
C_ERR == "?"      \* getopt_long reported an error

\* mutant: the tags of --file and --search exchanged
long_options_Swapped == <<
    [name |-> "help",       has_arg |-> no_argument,       flag |-> "help_flag",    val |-> "1"],
    [name |-> "version",    has_arg |-> no_argument,       flag |-> "version_flag", val |-> "1"],
    [name |-> "debug",      has_arg |-> optional_argument, flag |-> "0",            val |-> "d"],
    [name |-> "file",       has_arg |-> required_argument, flag |-> "0",            val |-> "s"],
    [name |-> "search",     has_arg |-> required_argument, flag |-> "0",            val |-> "f"],
    [name |-> "log_output", has_arg |-> required_argument, flag |-> "0",            val |-> "l"],
    [name |-> "command",    has_arg |-> required_argument, flag |-> "0",            val |-> "c"],
    [name |-> "pipe",       has_arg |-> no_argument,       flag |-> "0",            val |-> "p"] >>

long_options == <<
    [name |-> "help",       has_arg |-> no_argument,       flag |-> "help_flag",    val |-> "1"],
    [name |-> "version",    has_arg |-> no_argument,       flag |-> "version_flag", val |-> "1"],
    [name |-> "debug",      has_arg |-> optional_argument, flag |-> "0",            val |-> "d"],
    [name |-> "file",       has_arg |-> required_argument, flag |-> "0",            val |-> "f"],
    [name |-> "search",     has_arg |-> required_argument, flag |-> "0",            val |-> "s"],
    [name |-> "log_output", has_arg |-> required_argument, flag |-> "0",            val |-> "l"],
    [name |-> "command",    has_arg |-> required_argument, flag |-> "0",            val |-> "c"],
    [name |-> "pipe",       has_arg |-> no_argument,       flag |-> "0",            val |-> "p"] >>

optstring == <<"h", "v", "d", ":", ":", "l", ":", "f", ":", "s", ":", "c", ":", "p">>

\* has_arg of the short option ch, "unknown" when optstring does not list it
ShortHasArg(ch) ==
    LET at == {i \in 1..Len(optstring) : optstring[i] = ch}
    IN  IF ch = ":" \/ at = {} THEN "unknown"
        ELSE LET i == CHOOSE j \in at : TRUE
                 colon(k) == k <= Len(optstring) /\ optstring[k] = ":"
             IN  IF colon(i + 1) /\ colon(i + 2) THEN optional_argument
                 ELSE IF colon(i + 1) THEN required_argument
                 ELSE no_argument

IsNonOption(e) == e = <<>> \/ Head(e) \notin {"-", "--"} \/ e = <<"-">>

\* index of the first option element of av at or after i, Len(av) + 1 if none
RECURSIVE NextOption(_, _)
NextOption(av, i) ==
    IF i > Len(av) THEN i
    ELSE IF IsNonOption(av[i]) THEN NextOption(av, i + 1)
    ELSE i

GetoptResult(c, arg, oi, nc, fl, er) ==
    [c |-> c, optarg |-> arg, optind |-> oi, nextchar |-> nc, flag |-> fl, err |-> er]

\* one long option, the element av[i]
GetoptLongOption(av, i) ==
    LET e == av[i]
        name == e[2]
        hasEq == Len(e) >= 3 /\ e[3] = "="
        arg == SubSeq(e, 4, Len(e))
        found == {k \in 1..Len(long_options) : long_options[k].name = name}
    IN  IF found = {} THEN GetoptResult(C_ERR, NULL, i + 1, 0, "0", TRUE)
        ELSE LET o == long_options[CHOOSE k \in found : TRUE]
                 ret == IF o.flag = "0" THEN o.val ELSE C_FLAG
             IN  IF hasEq
                 THEN IF o.has_arg = no_argument
                      THEN GetoptResult(C_ERR, NULL, i + 1, 0, "0", TRUE)
                      ELSE GetoptResult(ret, arg, i + 1, 0, o.flag, FALSE)
                 ELSE IF o.has_arg = required_argument
                      THEN IF i + 1 <= Len(av)
                           THEN GetoptResult(ret, av[i + 1], i + 2, 0, o.flag, FALSE)
                           ELSE GetoptResult(C_ERR, NULL, i + 1, 0, "0", TRUE)
                      ELSE GetoptResult(ret, NULL, i + 1, 0, o.flag, FALSE)

\* one short option, the character av[i][n]
GetoptShortOption(av, i, n) ==
    LET e == av[i]
        ch == e[n]
        rest == SubSeq(e, n + 1, Len(e))
        last == rest = <<>>
        mode == ShortHasArg(ch)
    IN  IF mode = "unknown"
        THEN GetoptResult(C_ERR, NULL, IF last THEN i + 1 ELSE i, IF last THEN 0 ELSE n + 1, "0", TRUE)
        ELSE IF mode = no_argument
        THEN GetoptResult(ch, NULL, IF last THEN i + 1 ELSE i, IF last THEN 0 ELSE n + 1, "0", FALSE)
        ELSE IF mode = optional_argument
        THEN GetoptResult(ch, IF last THEN NULL ELSE rest, i + 1, 0, "0", FALSE)
        ELSE IF ~last
        THEN GetoptResult(ch, rest, i + 1, 0, "0", FALSE)
        ELSE IF i + 1 <= Len(av)
        THEN GetoptResult(ch, av[i + 1], i + 2, 0, "0", FALSE)
        ELSE GetoptResult(C_ERR, NULL, i + 1, 0, "0", TRUE)

getopt_long(av, oi, nc) ==
    IF nc # 0 THEN GetoptShortOption(av, oi, nc)
    ELSE LET i == NextOption(av, oi)
         IN  IF i > Len(av) THEN GetoptResult(C_END, NULL, i, 0, "0", FALSE)
             ELSE IF av[i] = <<"--">> THEN GetoptResult(C_END, NULL, Len(av) + 1, 0, "0", FALSE)
             ELSE IF Head(av[i]) = "--" THEN GetoptLongOption(av, i)
             ELSE GetoptShortOption(av, i, 2)

-----------------------------------------------------------------------------
(* find_exe_path, find_suffix, add_default_dirs                             *)
(* Allocation (malloc, alloc_printf, strdup) is taken to succeed.           *)

UB == <<"(undefined)">>         \* the value of an expression with undefined behaviour
UNINIT == <<"(uninitialized)">> \* a buffer that was never written

BINDIR == <<"/", "usr", "/", "bin">>
PKGDATADIR == <<"/", "usr", "/", "share">>

\* options.c:76-79: path separators to UNIX style
RECURSIVE ToUnixSeparators(_)
ToUnixSeparators(s) ==
    IF s = <<>> THEN <<>>
    ELSE <<IF Head(s) = "\\" THEN "/" ELSE Head(s)>> \o ToUnixSeparators(Tail(s))

\* the do { } while (0) block: the path of the running executable, or NULL
SelfPath(b, e) ==
    IF b.platform = "win32"
    THEN IF e.self[1] = UNINIT THEN UB ELSE ToUnixSeparators(e.self[1])
    ELSE IF b.platform \in {"darwin", "bsd"}
    THEN e.self[1]
    ELSE IF e.self[1] # NULL THEN e.self[1]
    ELSE IF e.self[2] # NULL THEN e.self[2]
    ELSE e.self[3]

find_exe_path(b, e) ==
    LET exepath == SelfPath(b, e)
    IN  IF exepath = UB THEN UB
        ELSE IF exepath # NULL
        THEN LET i == strrchr(exepath, "/")
             IN  IF i = 0 THEN UB ELSE Truncate(exepath, i)
        ELSE IF b.platform = "win32" THEN BINDIR ELSE e.bindir

\* index in text where suffix starts, 0 for NULL
find_suffix(text, suffix) ==
    LET text_len == Len(text)
        suffix_len == Len(suffix)
    IN  IF suffix_len = 0 THEN text_len + 1
        ELSE IF suffix_len > text_len
                \/ SubSeq(text, text_len - suffix_len + 1, text_len) # suffix
        THEN 0
        ELSE text_len - suffix_len + 1

\* add_default_dirs, lines 154-169: run_prefix, or UB
RunPrefix(b, e) ==
    LET exepath == find_exe_path(b, e)
    IN  IF exepath \in {UB, NULL} THEN UB
        ELSE LET i == strrchr(exepath, "/")
             IN  IF i = 0 THEN UB
                 ELSE LET dir == Truncate(exepath, i)
                          end_of_prefix ==
                              IF b.platform = "win32" /\ b.nuvoton
                              THEN find_suffix(dir, <<"bin">>)
                              ELSE find_suffix(dir, BINDIR)
                      IN  IF end_of_prefix # 0 THEN Truncate(dir, end_of_prefix) ELSE dir

\* mutant: the scripts directory registered before the site directory
DefaultDirs_ScriptsFirst(b, e, rp) ==
    (IF e.HOME # NULL THEN <<e.HOME \o <<"/", ".openocd">>>> ELSE <<>>)
    \o (IF e.OPENOCD_SCRIPTS # NULL THEN <<e.OPENOCD_SCRIPTS>> ELSE <<>>)
    \o (IF b.platform = "win32" /\ e.APPDATA # NULL
        THEN <<e.APPDATA \o <<"/", "OpenOCD">>>> ELSE <<>>)
    \o (IF b.platform = "win32" /\ b.nuvoton
        THEN << rp \o <<"/", "scripts">>, rp \o <<"/", "site">> >>
        ELSE << rp \o PKGDATADIR \o <<"/", "scripts">>,
                rp \o PKGDATADIR \o <<"/", "site">> >>)

\* add_default_dirs, lines 179-230: the directories it registers, in order
DefaultDirs(b, e, rp) ==
    (IF e.HOME # NULL THEN <<e.HOME \o <<"/", ".openocd">>>> ELSE <<>>)
    \o (IF e.OPENOCD_SCRIPTS # NULL THEN <<e.OPENOCD_SCRIPTS>> ELSE <<>>)
    \o (IF b.platform = "win32" /\ e.APPDATA # NULL
        THEN <<e.APPDATA \o <<"/", "OpenOCD">>>> ELSE <<>>)
    \o (IF b.platform = "win32" /\ b.nuvoton
        THEN << rp \o <<"/", "site">>, rp \o <<"/", "scripts">> >>
        ELSE << rp \o PKGDATADIR \o <<"/", "site">>,
                rp \o PKGDATADIR \o <<"/", "scripts">> >>)

-----------------------------------------------------------------------------
(* Inputs: the build, the environment and the argument vector               *)

MaxArgs == 3       \* longest argument vector under a base environment
MaxDirArgs == 2    \* longest argument vector under the other environments
MaxLongArgs == 2   \* longest argument vector of long options
MaxCalls == 2      \* calls of parse_cmdline_args in one process

\* NUVOTON_CUSTOMIZED is consulted together with _WIN32 only
Builds ==
    {[platform |-> p, nuvoton |-> FALSE] : p \in {"posix", "darwin", "bsd", "win32"}}
    \cup {[platform |-> "win32", nuvoton |-> TRUE]}

UnixExes == { <<"/", "usr", "/", "bin", "/", "openocd">>,
              <<"/", "usr", "/", "bin", "/", "t", "/", "openocd">>,
              <<"/", "openocd">> }

WinExes == { <<"C:", "\\", "ocd", "\\", "bin", "\\", "openocd.exe">>,
             <<"C:", "\\", "bin", "\\", "t", "\\", "openocd.exe">>,
             <<"C:", "\\", "openocd.exe">> }

\* the answers of the self-path lookups the platform tries, in order
SelfLookups(b) ==
    IF b.platform = "win32" THEN {<<p>> : p \in WinExes \cup {UNINIT}}
    ELSE IF b.platform \in {"darwin", "bsd"} THEN {<<p>> : p \in UnixExes \cup {NULL}}
    ELSE {<<p, NULL, NULL>> : p \in UnixExes \cup {NULL}}
         \cup {<<NULL, p, NULL>> : p \in UnixExes}
         \cup {<<NULL, NULL, p>> : p \in UnixExes}

Environments(b) ==
    {e \in [HOME : {NULL, <<"/", "home">>},
            OPENOCD_SCRIPTS : {NULL, <<"/", "ocd">>},
            APPDATA : {NULL, <<"C:", "/", "AppData">>},
            self : SelfLookups(b),
            bindir : {NULL, BINDIR}] :
        /\ (b.platform # "win32" => e.APPDATA = NULL)
        /\ ((\E i \in 1..Len(e.self) : e.self[i] # NULL) => e.bindir = BINDIR)}

\* an installation under BINDIR on a POSIX host, one where no lookup
\* succeeds, and the customized Windows build
BaseEnvironments ==
    { << [platform |-> "posix", nuvoton |-> FALSE],
         [HOME |-> <<"/", "home">>, OPENOCD_SCRIPTS |-> NULL, APPDATA |-> NULL,
          self |-> << <<"/", "usr", "/", "bin", "/", "openocd">>, NULL, NULL >>,
          bindir |-> BINDIR] >>,
      << [platform |-> "posix", nuvoton |-> FALSE],
         [HOME |-> NULL, OPENOCD_SCRIPTS |-> <<"/", "ocd">>, APPDATA |-> NULL,
          self |-> <<NULL, NULL, NULL>>, bindir |-> NULL] >> }

\* argument vector elements under a base environment
Pool == { <<"-", "h">>, <<"-", "v">>, <<"--", "help">>, <<"-", "p">>,
          <<"-", "d">>, <<"-", "d", "2">>, <<"2">>, <<"-", "f">>,
          <<"-", "s", "A">>, <<"-", "l">>, <<"-", "c", "B">>, <<"-", "x">>,
          <<"-", "p", "v">>, <<"--">> }

\* argument vector elements under the other environments
DirPool == { <<"-", "s", "A">>, <<"-", "s", "B">>, <<"-", "h">>, <<"-", "f", "A">> }

\* the long options, with and without an argument, under a base environment
LongPool == { <<"--", "help">>, <<"--", "version">>, <<"--", "pipe">>,
              <<"--", "debug">>, <<"--", "debug", "=", "2">>,
              <<"--", "file">>, <<"--", "file", "=", "A">>,
              <<"--", "search">>, <<"--", "search", "=", "A">>,
              <<"--", "log_output">>, <<"--", "log_output", "=", "A">>,
              <<"--", "command">>, <<"--", "command", "=", "B">>,
              <<"--", "help", "=", "A">>, <<"--", "bogus">>, <<"2">> }

Argvs(pool, n) == UNION {[1..k -> pool] : k \in 0..n}

Init ==
    /\ build \in Builds
    /\ env \in Environments(build)
    /\ argv \in IF <<build, env>> \in BaseEnvironments
                THEN Argvs(Pool, MaxArgs) \cup Argvs(LongPool, MaxLongArgs)
                     \cup Argvs(DirPool, MaxDirArgs)
                ELSE Argvs(DirPool, MaxDirArgs)
    /\ optind = 1
    /\ nextchar = 0
    /\ help_flag = 0
    /\ version_flag = 0
    /\ config_commands = <<>>
    /\ script_search_dirs = <<>>
    /\ trace = <<>>
    /\ run_failed = FALSE
    /\ opts = <<>>
    /\ run_prefix = NULL
    /\ default_calls = 0
    /\ pc = "parsing"
    /\ status = 0

-----------------------------------------------------------------------------
(* parse_cmdline_args: one action per pass of the loop, by switch case      *)

Call(fn, arg) == [fn |-> fn, arg |-> arg]

\* what every getopt_long call does before the switch
GetoptStep(r) ==
    /\ optind' = r.optind
    /\ nextchar' = r.nextchar
    /\ opts' = Append(opts, [c |-> r.c, optarg |-> r.optarg, flag |-> r.flag])
    /\ UNCHANGED <<build, env, argv, run_prefix, default_calls, pc, status>>

GetoptMessage(r) == IF r.err THEN <<Call("getopt_error", <<>>)>> ELSE <<>>

\* mutant: the path handed over without the braces
ScriptCommand_NoBraces(optarg) == <<"script ">> \o optarg

\* alloc_printf("script {%s}", optarg)
ScriptCommand(optarg) == <<"script {">> \o optarg \o <<"}">>

\* mutant: the level taken from optarg without the default
DebugCommand_NoDefault(optarg) == <<"debug_level ">> \o optarg

\* alloc_printf("debug_level %s", optarg ? optarg : "3")
DebugCommand(optarg) == <<"debug_level ">> \o (IF optarg # NULL THEN optarg ELSE <<"3">>)

\* alloc_printf("log_output %s", optarg)
LogCommand(optarg) == <<"log_output ">> \o optarg

PipeCommand == <<"gdb_port pipe; log_output openocd.log">>

PipeWarning == <<"deprecated option: -p/--pipe. Use '-c \"gdb_port pipe; log_output openocd.log\"' instead.">>

\* case 0: getopt_long stored val in the option's flag
Case_0 ==
    LET r == getopt_long(argv, optind, nextchar)
    IN  /\ pc = "parsing"
        /\ r.c = C_FLAG
        /\ help_flag' = IF r.flag = "help_flag" THEN 1 ELSE help_flag
        /\ version_flag' = IF r.flag = "version_flag" THEN 1 ELSE version_flag
        /\ GetoptStep(r)
        /\ UNCHANGED <<config_commands, script_search_dirs, trace, run_failed>>

\* mutant: the process left as soon as help is read
Case_h_ExitNow ==
    LET r == getopt_long(argv, optind, nextchar)
    IN  /\ pc' = "exited"
        /\ r.c = "h"
        /\ help_flag' = 1
        /\ optind' = r.optind
        /\ nextchar' = r.nextchar
        /\ opts' = Append(opts, [c |-> r.c, optarg |-> r.optarg, flag |-> r.flag])
        /\ status' = 255
        /\ pc = "parsing"
        /\ UNCHANGED <<build, env, argv, run_prefix, default_calls>>
        /\ UNCHANGED <<version_flag, config_commands, script_search_dirs, trace, run_failed>>

Case_h ==
    LET r == getopt_long(argv, optind, nextchar)
    IN  /\ pc = "parsing"
        /\ r.c = "h"
        /\ help_flag' = 1
        /\ GetoptStep(r)
        /\ UNCHANGED <<version_flag, config_commands, script_search_dirs, trace, run_failed>>

Case_v ==
    LET r == getopt_long(argv, optind, nextchar)
    IN  /\ pc = "parsing"
        /\ r.c = "v"
        /\ version_flag' = 1
        /\ GetoptStep(r)
        /\ UNCHANGED <<help_flag, config_commands, script_search_dirs, trace, run_failed>>

\* mutant: the script directive run at once instead of queued
Case_f_RunNow ==
    LET r == getopt_long(argv, optind, nextchar)
    IN  /\ pc = "parsing"
        /\ r.c = "f"
        /\ \E failed \in BOOLEAN :
              /\ trace' = Append(trace, Call("command_run_line", ScriptCommand(r.optarg)))
              /\ run_failed' = (run_failed \/ failed)
        /\ GetoptStep(r)
        /\ UNCHANGED <<help_flag, version_flag, config_commands, script_search_dirs>>

Case_f ==
    LET r == getopt_long(argv, optind, nextchar)
    IN  /\ pc = "parsing"
        /\ r.c = "f"
        /\ config_commands' = Append(config_commands, ScriptCommand(r.optarg))
        /\ GetoptStep(r)
        /\ UNCHANGED <<help_flag, version_flag, script_search_dirs, trace, run_failed>>

\* mutant: the directory replacing the search path
Case_s_Clobber ==
    LET r == getopt_long(argv, optind, nextchar)
    IN  /\ pc = "parsing"
        /\ r.c = "s"
        /\ script_search_dirs' = <<r.optarg>>
        /\ GetoptStep(r)
        /\ UNCHANGED <<help_flag, version_flag, config_commands, trace, run_failed>>

Case_s ==
    LET r == getopt_long(argv, optind, nextchar)
    IN  /\ pc = "parsing"
        /\ r.c = "s"
        /\ script_search_dirs' = Append(script_search_dirs, r.optarg)
        /\ GetoptStep(r)
        /\ UNCHANGED <<help_flag, version_flag, config_commands, trace, run_failed>>

Case_d ==
    LET r == getopt_long(argv, optind, nextchar)
    IN  /\ pc = "parsing"
        /\ r.c = "d"
        /\ \E failed \in BOOLEAN :
              /\ trace' = Append(trace, Call("command_run_line", DebugCommand(r.optarg)))
              /\ run_failed' = (run_failed \/ failed)
        /\ GetoptStep(r)
        /\ UNCHANGED <<help_flag, version_flag, config_commands, script_search_dirs>>

\* mutant: the test of optarg inverted, the directive dropped
Case_l_Dropped ==
    LET r == getopt_long(argv, optind, nextchar)
    IN  /\ pc = "parsing"
        /\ r.c = "l"
        /\ \E failed \in BOOLEAN :
              IF r.optarg = NULL
              THEN /\ trace' = Append(trace, Call("command_run_line", LogCommand(r.optarg)))
                   /\ run_failed' = (run_failed \/ failed)
              ELSE UNCHANGED <<trace, run_failed>>
        /\ GetoptStep(r)
        /\ UNCHANGED <<help_flag, version_flag, config_commands, script_search_dirs>>

Case_l ==
    LET r == getopt_long(argv, optind, nextchar)
    IN  /\ pc = "parsing"
        /\ r.c = "l"
        /\ \E failed \in BOOLEAN :
              IF r.optarg # NULL
              THEN /\ trace' = Append(trace, Call("command_run_line", LogCommand(r.optarg)))
                   /\ run_failed' = (run_failed \/ failed)
              ELSE UNCHANGED <<trace, run_failed>>
        /\ GetoptStep(r)
        /\ UNCHANGED <<help_flag, version_flag, config_commands, script_search_dirs>>

\* mutant: the text queued in front of the earlier entries
Case_c_Prepend ==
    LET r == getopt_long(argv, optind, nextchar)
    IN  /\ pc = "parsing"
        /\ r.c = "c"
        /\ config_commands' = <<r.optarg>> \o config_commands
        /\ GetoptStep(r)
        /\ UNCHANGED <<help_flag, version_flag, script_search_dirs, trace, run_failed>>

\* mutant: the text queued as a script to load
Case_c_Wrapped ==
    LET r == getopt_long(argv, optind, nextchar)
    IN  /\ pc = "parsing"
        /\ r.c = "c"
        /\ config_commands' = Append(config_commands, ScriptCommand(r.optarg))
        /\ GetoptStep(r)
        /\ UNCHANGED <<help_flag, version_flag, script_search_dirs, trace, run_failed>>

Case_c ==
    LET r == getopt_long(argv, optind, nextchar)
    IN  /\ pc = "parsing"
        /\ r.c = "c"
        /\ config_commands' = IF r.optarg # NULL THEN Append(config_commands, r.optarg)
                              ELSE config_commands
        /\ GetoptStep(r)
        /\ UNCHANGED <<help_flag, version_flag, script_search_dirs, trace, run_failed>>

\* mutant: the warning logged before the directive is run
Case_p_WarnFirst ==
    LET r == getopt_long(argv, optind, nextchar)
    IN  /\ pc = "parsing"
        /\ r.c = "p"
        /\ \E failed \in BOOLEAN :
              /\ trace' = trace \o <<Call("LOG_WARNING", PipeWarning),
                                     Call("command_run_line", PipeCommand)>>
              /\ run_failed' = (run_failed \/ failed)
        /\ GetoptStep(r)
        /\ UNCHANGED <<help_flag, version_flag, config_commands, script_search_dirs>>

Case_p ==
    LET r == getopt_long(argv, optind, nextchar)
    IN  /\ pc = "parsing"
        /\ r.c = "p"
        /\ \E failed \in BOOLEAN :
              /\ trace' = trace \o <<Call("command_run_line", PipeCommand),
                                     Call("LOG_WARNING", PipeWarning)>>
              /\ run_failed' = (run_failed \/ failed)
        /\ GetoptStep(r)
        /\ UNCHANGED <<help_flag, version_flag, config_commands, script_search_dirs>>

\* mutant: getopt_long reporting an error without its diagnostic
NoCase_Silent ==
    LET r == getopt_long(argv, optind, nextchar)
    IN  /\ pc = "parsing"
        /\ r.c = C_ERR
        /\ trace' = trace
        /\ GetoptStep(r)
        /\ UNCHANGED <<help_flag, version_flag, config_commands, script_search_dirs, run_failed>>

\* '?': the switch has no case for it and the loop goes on
NoCase ==
    LET r == getopt_long(argv, optind, nextchar)
    IN  /\ pc = "parsing"
        /\ r.c = C_ERR
        /\ trace' = trace \o GetoptMessage(r)
        /\ GetoptStep(r)
        /\ UNCHANGED <<help_flag, version_flag, config_commands, script_search_dirs, run_failed>>

-----------------------------------------------------------------------------
(* parse_cmdline_args after the loop                                         *)

UsageText == << <<"Open On-Chip Debugger\nLicensed under GNU GPL v2\n">>,
                <<"--help       | -h\tdisplay this help\n">>,
                <<"--version    | -v\tdisplay OpenOCD version\n">>,
                <<"--file       | -f\tuse configuration file <name>\n">>,
                <<"--search     | -s\tdir to search for config files and scripts\n">>,
                <<"--debug      | -d\tset debug level <0-4>\n">>,
                <<"--log_output | -l\tredirect log output to file <name>\n">>,
                <<"--command    | -c\trun <command>\n">> >>

\* exit(n): the status the parent process sees
ExitStatus(n) == n % 256

EndFrame ==
    /\ optind' = getopt_long(argv, optind, nextchar).optind
    /\ UNCHANGED <<build, env, argv, nextchar, help_flag, version_flag,
                   config_commands, run_failed, opts>>

HelpExit ==
    /\ pc = "parsing"
    /\ getopt_long(argv, optind, nextchar).c = C_END
    /\ help_flag # 0
    /\ trace' = trace \o [i \in 1..Len(UsageText) |-> Call("LOG_OUTPUT", UsageText[i])]
    /\ pc' = "exited"
    /\ status' = ExitStatus(-1)
    /\ EndFrame
    /\ UNCHANGED <<script_search_dirs, run_prefix, default_calls>>

\* mutant: version tested before help
VersionExit_BeforeHelp ==
    /\ pc = "parsing"
    /\ getopt_long(argv, optind, nextchar).c = C_END
    /\ version_flag # 0
    /\ pc' = "exited"
    /\ status' = ExitStatus(0)
    /\ EndFrame
    /\ UNCHANGED <<script_search_dirs, trace, run_prefix, default_calls>>

\* mutant: exit as soon as the version flag is set
VersionExit_Early ==
    /\ pc = "parsing"
    /\ help_flag = 0
    /\ version_flag # 0
    /\ pc' = "exited"
    /\ status' = ExitStatus(0)
    /\ UNCHANGED <<build, env, argv, optind, nextchar, help_flag, version_flag,
                   config_commands, run_failed, opts>>
    /\ UNCHANGED <<script_search_dirs, trace, run_prefix, default_calls>>

VersionExit ==
    /\ pc = "parsing"
    /\ getopt_long(argv, optind, nextchar).c = C_END
    /\ help_flag = 0
    /\ version_flag # 0
    /\ pc' = "exited"
    /\ status' = ExitStatus(0)
    /\ EndFrame
    /\ UNCHANGED <<script_search_dirs, trace, run_prefix, default_calls>>

\* what a string read through an invalid pointer may hold
Garbage == { <<"?">> }

\* add_default_dirs(); return ERROR_OK;
\* undefined behaviour in add_default_dirs ends the process or goes on with
\* an arbitrary exepath
DefaultsReturn ==
    /\ pc = "parsing"
    /\ getopt_long(argv, optind, nextchar).c = C_END
    /\ help_flag = 0
    /\ version_flag = 0
    /\ default_calls' = default_calls + 1
    /\ LET rp == RunPrefix(build, env)
       IN  \E o \in IF rp = UB THEN {UB} \cup Garbage ELSE {rp} :
              /\ run_prefix' = o
              /\ IF o = UB
                 THEN /\ pc' = "crashed"
                      /\ UNCHANGED <<script_search_dirs, status>>
                 ELSE /\ script_search_dirs' = script_search_dirs \o DefaultDirs(build, env, o)
                      /\ pc' = "returned"
                      /\ status' = ERROR_OK
    /\ EndFrame
    /\ UNCHANGED trace

Next ==
    \/ Case_0
    \/ Case_h
    \/ Case_v
    \/ Case_f
    \/ Case_s
    \/ Case_d
    \/ Case_l
    \/ Case_c
    \/ Case_p
    \/ NoCase
    \/ HelpExit
    \/ VersionExit
    \/ DefaultsReturn

\* parse_cmdline_args is entered again in the same process: getopt_long keeps
\* its position and the flags, the queue and the search path keep their values
Reenter ==
    /\ pc = "returned"
    /\ default_calls < MaxCalls
    /\ pc' = "parsing"
    /\ UNCHANGED <<build, env, argv, optind, nextchar, help_flag, version_flag,
                   config_commands, script_search_dirs, trace, run_failed, opts,
                   run_prefix, default_calls, status>>

NextTwice ==
    \/ Next
    \/ Reenter

Spec == Init /\ [][Next]_vars

SpecTwice == Init /\ [][NextTwice]_vars

-----------------------------------------------------------------------------
(* Properties                                                                *)

\* the getopt_long results so far whose c is in cs
OptsOf(cs) == SelectSeq(opts, LAMBDA o : o.c \in cs)

\* the arguments of the occurrences of option c, in the order given
ArgsOf(c) == [i \in 1..Len(OptsOf({c})) |-> OptsOf({c})[i].optarg]

\* the strings passed to command_run_line so far, in order
RunLines ==
    LET t == SelectSeq(trace, LAMBDA ev : ev.fn = "command_run_line")
    IN  [i \in 1..Len(t) |-> t[i].arg]

HelpSeen == \E i \in 1..Len(opts) : opts[i].c = "h" \/ opts[i].flag = "help_flag"

VersionSeen == \E i \in 1..Len(opts) : opts[i].c = "v" \/ opts[i].flag = "version_flag"

ArgsConsumed == optind > Len(argv) /\ nextchar = 0

EnvDefaults ==
    (IF env.HOME # NULL THEN << env.HOME \o <<"/", ".openocd">> >> ELSE <<>>)
    \o (IF env.OPENOCD_SCRIPTS # NULL THEN <<env.OPENOCD_SCRIPTS>> ELSE <<>>)
    \o (IF build.platform = "win32" /\ env.APPDATA # NULL
        THEN << env.APPDATA \o <<"/", "OpenOCD">> >> ELSE <<>>)

\* C1 as stated: when parse_cmdline_args returns, the search path is the -s
\* arguments in the order given, then <HOME>/.openocd, OPENOCD_SCRIPTS,
\* <APPDATA>/OpenOCD (Windows), <run_prefix><pkgdatadir>/site and
\* <run_prefix><pkgdatadir>/scripts, an entry skipped when its variable is unset.
C1_Original ==
    pc = "returned" =>
        script_search_dirs =
            ArgsOf("s") \o EnvDefaults
            \o << run_prefix \o PKGDATADIR \o <<"/", "site">>,
                  run_prefix \o PKGDATADIR \o <<"/", "scripts">> >>

\* C1 amended: as C1, except that the build for Windows with NUVOTON_CUSTOMIZED
\* registers <run_prefix>/site and <run_prefix>/scripts, without pkgdatadir.
C1_SearchPath ==
    pc = "returned" =>
        LET root == IF build.platform = "win32" /\ build.nuvoton
                    THEN run_prefix ELSE run_prefix \o PKGDATADIR
        IN  script_search_dirs =
                ArgsOf("s") \o EnvDefaults
                \o << root \o <<"/", "site">>, root \o <<"/", "scripts">> >>

C1_Witness ==
    /\ pc = "returned"
    /\ Len(ArgsOf("s")) = 2
    /\ ArgsOf("s")[1] # ArgsOf("s")[2]
    /\ env.HOME # NULL
    /\ env.OPENOCD_SCRIPTS = NULL
    /\ build.platform = "win32"
    /\ env.APPDATA # NULL
    /\ Len(script_search_dirs) = 6

\* C2 as stated: an unrecognized option or a missing required argument makes
\* parse_cmdline_args abort; it never returns ERROR_OK for such arguments.
C2_UnrecognizedAborts ==
    (\E i \in 1..Len(opts) : opts[i].c = C_ERR) => pc # "returned"

UsagePrinted ==
    /\ Len(trace) >= Len(UsageText)
    /\ \A i \in 1..Len(UsageText) :
          trace[Len(trace) - Len(UsageText) + i] = Call("LOG_OUTPUT", UsageText[i])

\* C3: once help has been given (-h or --help), whatever else is given, the
\* run never returns to the caller and never builds the default directories;
\* when the arguments are consumed it prints the usage text and exits with a
\* non-zero status.
C3_HelpAlwaysExits ==
    HelpSeen =>
        /\ pc \in {"parsing", "exited"}
        /\ default_calls = 0
        /\ (pc = "exited" => status # 0 /\ UsagePrinted /\ ArgsConsumed)
        /\ (pc = "parsing" /\ getopt_long(argv, optind, nextchar).c = C_END
               => ENABLED HelpExit)

C3_Witness ==
    /\ pc = "exited"
    /\ HelpSeen
    /\ VersionSeen
    /\ config_commands # <<>>
    /\ status = 255

\* C4: when version has been given (-v or --version) and help has not, the run
\* never returns to the caller; it exits with status 0, and only when the whole
\* argument vector has been consumed.
C4_VersionExitsZero ==
    (VersionSeen /\ ~HelpSeen) =>
        /\ pc \in {"parsing", "exited"}
        /\ (pc = "exited" => status = 0 /\ ArgsConsumed)
        /\ (pc = "parsing" /\ getopt_long(argv, optind, nextchar).c = C_END
               => ENABLED VersionExit)

C4_Witness ==
    /\ pc = "exited"
    /\ status = 0
    /\ Len(opts) = 3
    /\ opts[1].c = "v"
    /\ ~HelpSeen
    /\ Len(RunLines) = 1
    /\ config_commands # <<>>

\* C5 as stated: add_default_dirs is invoked exactly once, after the last
\* argument, when neither help nor version was set, and is followed by the
\* return of ERROR_OK; it is never invoked when help or version was set, and
\* the search path then holds only the -s entries.
C5_DefaultsThenReturn ==
    /\ default_calls # 0 =>
          /\ default_calls = 1
          /\ ~HelpSeen /\ ~VersionSeen
          /\ ArgsConsumed
          /\ pc = "returned" /\ status = ERROR_OK
    /\ pc = "returned" => default_calls = 1
    /\ pc = "exited" => default_calls = 0 /\ script_search_dirs = ArgsOf("s")

\* the debug_level directives among the strings run so far
DebugLines == SelectSeq(RunLines, LAMBDA l : Head(l) = "debug_level ")

\* C6 as stated: the debug option without argument runs 'debug_level 3', and
\* the arguments ['-d', '2'] run 'debug_level 2'; one directive is run for the
\* occurrence and nothing is queued.
C6_Original ==
    pc # "parsing" =>
        /\ argv = << <<"-", "d">> >> =>
              RunLines = << <<"debug_level ", "3">> >> /\ config_commands = <<>>
        /\ argv = << <<"-", "d">>, <<"2">> >> =>
              RunLines = << <<"debug_level ", "2">> >> /\ config_commands = <<>>

\* C6 amended: every occurrence of the debug option runs exactly one directive,
\* 'debug_level 3' when no level is attached to the option and 'debug_level
\* <level>' when one is attached (-d2, --debug=2); ['-d', '2'] and
\* ['--debug', '2'] run 'debug_level 3', the separate '2' being a non-option
\* argument; nothing is queued.
C6_DebugLevel ==
    /\ DebugLines =
          [i \in 1..Len(OptsOf({"d"})) |->
              <<"debug_level ">> \o (IF OptsOf({"d"})[i].optarg = NULL THEN <<"3">>
                                     ELSE OptsOf({"d"})[i].optarg)]
    /\ pc # "parsing" =>
          /\ argv = << <<"-", "d">> >> =>
                RunLines = << <<"debug_level ", "3">> >> /\ config_commands = <<>>
          /\ argv = << <<"-", "d", "2">> >> =>
                RunLines = << <<"debug_level ", "2">> >> /\ config_commands = <<>>
          /\ argv = << <<"-", "d">>, <<"2">> >> =>
                RunLines = << <<"debug_level ", "3">> >> /\ config_commands = <<>>
          /\ argv = << <<"--", "debug">> >> =>
                RunLines = << <<"debug_level ", "3">> >> /\ config_commands = <<>>
          /\ argv = << <<"--", "debug", "=", "2">> >> =>
                RunLines = << <<"debug_level ", "2">> >> /\ config_commands = <<>>
          /\ argv = << <<"--", "debug">>, <<"2">> >> =>
                RunLines = << <<"debug_level ", "3">> >> /\ config_commands = <<>>

C6_Witness ==
    /\ pc = "returned"
    /\ argv = << <<"-", "d">>, <<"2">> >>
    /\ RunLines = << <<"debug_level ", "3">> >>
    /\ Len(opts) = 1

\* C7: every occurrence of -f/--file <path> appends exactly one entry,
\* 'script {<path>}', to the deferred queue and calls command_run_line not at all.
C7_FileQueued ==
    [][(pc = "parsing" /\ getopt_long(argv, optind, nextchar).c = "f") =>
          /\ config_commands' =
                Append(config_commands,
                       <<"script {">> \o getopt_long(argv, optind, nextchar).optarg \o <<"}">>)
          /\ trace' = trace]_vars

C7_Witness ==
    /\ argv = << <<"-", "f">>, <<"2">> >>
    /\ Len(OptsOf({"f"})) = 1
    /\ config_commands = << <<"script {", "2", "}">> >>
    /\ RunLines = <<>>

\* C8: every occurrence of -c/--command <text> appends exactly one entry to the
\* deferred queue, and the entry is <text> unchanged.
C8_CommandVerbatim ==
    [][(pc = "parsing" /\ getopt_long(argv, optind, nextchar).c = "c") =>
          /\ getopt_long(argv, optind, nextchar).optarg # NULL
          /\ config_commands' =
                Append(config_commands, getopt_long(argv, optind, nextchar).optarg)]_vars

C8_Witness ==
    /\ argv = << <<"-", "c", "B">> >>
    /\ Len(OptsOf({"c"})) = 1
    /\ config_commands = << <<"B">> >>

\* C9: every occurrence of -p/--pipe, wherever it stands, runs the one directive
\* 'gdb_port pipe; log_output openocd.log' and then logs one deprecation
\* warning, both before the next argument is processed.
C9_PipeSynchronous ==
    [][(pc = "parsing" /\ getopt_long(argv, optind, nextchar).c = "p") =>
          /\ trace' = trace \o
                << Call("command_run_line", <<"gdb_port pipe; log_output openocd.log">>),
                   Call("LOG_WARNING", PipeWarning) >>
          /\ Len(opts') = Len(opts) + 1
          /\ config_commands' = config_commands]_vars

C9_Witness ==
    /\ Len(opts) = 3
    /\ opts[2].c = "p"
    /\ opts[1].c = "f"
    /\ Len(trace) >= 2
    /\ trace[1].fn = "command_run_line"
    /\ trace[2].fn = "LOG_WARNING"

\* C10: every string passed to command_run_line is a debug_level, log_output or
\* pipe directive, one per occurrence of -d, -l and -p; no directive built from
\* a -f or -c argument is ever passed to it.
C10_NoEarlyExecution ==
    /\ \A i \in 1..Len(RunLines) :
          \/ RunLines[i] = <<"gdb_port pipe; log_output openocd.log">>
          \/ Head(RunLines[i]) \in {"debug_level ", "log_output "}
    /\ Len(RunLines) = Len(OptsOf({"d", "l", "p"}))
    /\ \A i \in 1..Len(RunLines) : \A j \in 1..Len(opts) :
          opts[j].c \in {"f", "c"} =>
              /\ RunLines[i] # opts[j].optarg
              /\ RunLines[i] # <<"script {">> \o opts[j].optarg \o <<"}">>

C10_Witness ==
    /\ pc = "returned"
    /\ Len(RunLines) = 1
    /\ Len(OptsOf({"f", "c"})) = 2
    /\ Len(config_commands) = 2

\* the directive that the occurrence o of -d, -l or -p is to run
ImmediateDirective(o) ==
    IF o.c = "d" THEN <<"debug_level ">> \o (IF o.optarg = NULL THEN <<"3">> ELSE o.optarg)
    ELSE IF o.c = "l" THEN <<"log_output ">> \o o.optarg
    ELSE <<"gdb_port pipe; log_output openocd.log">>

RECURSIVE Repeat(_, _)
Repeat(block, n) == IF n = 0 THEN <<>> ELSE block \o Repeat(block, n - 1)

\* the entries one call of add_default_dirs is to append, with the run_prefix
\* that the last call computed
DefaultBlock ==
    LET root == IF build.platform = "win32" /\ build.nuvoton
                THEN run_prefix ELSE run_prefix \o PKGDATADIR
    IN  EnvDefaults \o << root \o <<"/", "site">>, root \o <<"/", "scripts">> >>

\* C11: the directives run through command_run_line are exactly one per
\* occurrence of -d, -l <path> and -p so far, in the order of the occurrences;
\* none is dropped by the time the arguments are consumed.
C11_NoImmediateDropped ==
    RunLines = [i \in 1..Len(OptsOf({"d", "l", "p"})) |->
                   ImmediateDirective(OptsOf({"d", "l", "p"})[i])]

C11_Witness ==
    /\ pc = "returned"
    /\ ArgsConsumed
    /\ Len(opts) = 2
    /\ opts[1].c = "l"
    /\ opts[2].c = "p"
    /\ RunLines = << <<"log_output ", "2">>, <<"gdb_port pipe; log_output openocd.log">> >>

\* C12: every call of add_default_dirs appends the same ordered block of
\* default directories: after k calls the search path is the -s arguments
\* followed by k copies of the block, nothing deduplicated, nothing earlier
\* changed.
C12_AppendsSameBlock ==
    default_calls > 0 =>
        /\ pc # "crashed"
        /\ script_search_dirs = ArgsOf("s") \o Repeat(DefaultBlock, default_calls)

\* the part of C12 that the code keeps: the calls that complete append the
\* same block
C12_WhereCompleted ==
    (default_calls > 0 /\ pc # "crashed") =>
        script_search_dirs = ArgsOf("s") \o Repeat(DefaultBlock, default_calls)

C12_SecondCallDone ==
    /\ default_calls = 2
    /\ pc = "returned"
    /\ Len(script_search_dirs) > 4

\* the executable path with only its file name component removed
ExeDir == Truncate(SelfPath(build, env), strrchr(SelfPath(build, env), "/"))

IsSuffix(suffix, text) ==
    /\ Len(suffix) <= Len(text)
    /\ SubSeq(text, Len(text) - Len(suffix) + 1, Len(text)) = suffix

\* C13: once add_default_dirs has run with the executable's path known,
\* run_prefix is the directory containing the executable with BINDIR stripped
\* when BINDIR is a suffix of that directory, that directory otherwise, and the
\* last two search path entries are <run_prefix><pkgdatadir>/site and
\* <run_prefix><pkgdatadir>/scripts.
C13_RunPrefix ==
    (default_calls > 0 /\ SelfPath(build, env) \notin {NULL, UB}
        /\ strrchr(SelfPath(build, env), "/") # 0) =>
        /\ run_prefix = IF IsSuffix(BINDIR, ExeDir)
                        THEN SubSeq(ExeDir, 1, Len(ExeDir) - Len(BINDIR))
                        ELSE ExeDir
        /\ Len(script_search_dirs) >= 2
        /\ SubSeq(script_search_dirs, Len(script_search_dirs) - 1, Len(script_search_dirs))
             = << run_prefix \o PKGDATADIR \o <<"/", "site">>,
                  run_prefix \o PKGDATADIR \o <<"/", "scripts">> >>

\* C14: find_exe_path returns a path that is neither null nor empty whatever
\* the self-path lookups and the resolution of BINDIR do, and add_default_dirs
\* never works on a null path.
C14_ExePathNeverNull ==
    default_calls > 0 =>
        /\ find_exe_path(build, env) \notin {NULL, <<>>, UB}
        /\ pc # "crashed"
        /\ run_prefix \notin Garbage

\* the long form of the short option ch, "" when there is none
LongName(ch) ==
    CASE ch = "h" -> "help"
      [] ch = "v" -> "version"
      [] ch = "f" -> "file"
      [] ch = "s" -> "search"
      [] ch = "d" -> "debug"
      [] ch = "l" -> "log_output"
      [] ch = "c" -> "command"
      [] ch = "p" -> "pipe"
      [] OTHER -> ""

\* the elements that replace one short option occurrence, r being what
\* getopt_long made of it: the same argument, attached where it was attached
LongForm(ch, r, attached) ==
    IF LongName(ch) = "" THEN << <<"-", ch>> >>
    ELSE IF r.c = C_ERR \/ r.optarg = NULL THEN << <<"--", LongName(ch)>> >>
    ELSE IF attached THEN << <<"--", LongName(ch), "=">> \o r.optarg >>
    ELSE << <<"--", LongName(ch)>>, r.optarg >>

\* the argument vector av from element oi, character nc, with every short
\* option occurrence replaced by its long form
RECURSIVE ToLong(_, _, _)
ToLong(av, oi, nc) ==
    IF nc = 0
    THEN LET i == NextOption(av, oi)
         IN  IF i > Len(av) \/ av[i] = <<"--">> THEN SubSeq(av, oi, Len(av))
             ELSE SubSeq(av, oi, i - 1)
                  \o (IF Head(av[i]) = "--"
                      THEN SubSeq(av, i, getopt_long(av, i, 0).optind - 1)
                           \o ToLong(av, getopt_long(av, i, 0).optind, 0)
                      ELSE ToLong(av, i, 2))
    ELSE LET r == getopt_long(av, oi, nc)
         IN  LongForm(av[oi][nc], r, nc < Len(av[oi])) \o ToLong(av, r.optind, r.nextchar)

\* what the switch sees of a getopt_long result: the tag, --help and --version
\* standing for their flags
Tag(r) ==
    [c |-> IF r.c # C_FLAG THEN r.c ELSE IF r.flag = "help_flag" THEN "h" ELSE "v",
     optarg |-> r.optarg]

Tags(rs) == [i \in 1..Len(rs) |-> Tag(rs[i])]

\* the getopt_long results of a whole run over av
RECURSIVE Results(_, _, _)
Results(av, oi, nc) ==
    LET r == getopt_long(av, oi, nc)
    IN  IF r.c = C_END THEN <<>> ELSE <<r>> \o Results(av, r.optind, r.nextchar)

\* C15: long and short forms are synonyms. The argument vector with every
\* short option occurrence replaced by its long form, with the same argument,
\* gives the same sequence of tags and arguments to the switch (the argument
\* vector never changes, so the two are compared before the first step); and
\* the flags, the queue, the search path, the immediate executions and the way
\* the run ends are determined by that sequence alone.
C15_LongShortSynonyms ==
    LET seen == Tags(opts)
        all == Tags(Results(argv, 1, 0))
        has(c) == \E i \in 1..Len(seen) : seen[i].c = c
        fc == SelectSeq(seen, LAMBDA t : t.c \in {"f", "c"})
        ss == SelectSeq(seen, LAMBDA t : t.c = "s")
        dlp == SelectSeq(seen, LAMBDA t : t.c \in {"d", "l", "p"})
    IN  /\ (opts = <<>> => Tags(Results(ToLong(argv, 1, 0), 1, 0)) = all)
        /\ (pc # "parsing" => seen = all)
        /\ help_flag = (IF has("h") THEN 1 ELSE 0)
        /\ version_flag = (IF has("v") THEN 1 ELSE 0)
        /\ config_commands =
             [i \in 1..Len(fc) |->
                 IF fc[i].c = "f" THEN <<"script {">> \o fc[i].optarg \o <<"}">>
                 ELSE fc[i].optarg]
        /\ Len(script_search_dirs) >= Len(ss)
        /\ \A i \in 1..Len(ss) : script_search_dirs[i] = ss[i].optarg
        /\ (pc \notin {"returned", "crashed"} => Len(script_search_dirs) = Len(ss))
        /\ RunLines = [i \in 1..Len(dlp) |-> ImmediateDirective(dlp[i])]
        /\ (pc = "exited" =>
               /\ has("h") \/ has("v")
               /\ status = IF has("h") THEN 255 ELSE 0
               /\ UsagePrinted <=> has("h"))
        /\ (pc \in {"returned", "crashed"} => ~has("h") /\ ~has("v"))

C15_Witness ==
    /\ pc = "exited"
    /\ ToLong(argv, 1, 0) # argv
    /\ \A i \in 1..Len(argv) : Head(argv[i]) # "--"
    /\ \E i \in 1..Len(ToLong(argv, 1, 0)) : "=" \in {ToLong(argv, 1, 0)[i][k] : k \in 1..Len(ToLong(argv, 1, 0)[i])}
    /\ script_search_dirs # <<>>
    /\ version_flag = 1

\* C16: the deferred queue holds exactly one entry per occurrence of -f and
\* -c so far, 'script {<path>}' for -f and the text for -c, in the order of
\* the occurrences of both kinds; no other option contributes an entry. In
\* particular so when the arguments are consumed.
C16_QueueInArgvOrder ==
    /\ Len(config_commands) = Len(OptsOf({"f", "c"}))
    /\ \A i \in 1..Len(config_commands) :
          config_commands[i] =
              IF OptsOf({"f", "c"})[i].c = "f"
              THEN <<"script {">> \o OptsOf({"f", "c"})[i].optarg \o <<"}">>
              ELSE OptsOf({"f", "c"})[i].optarg

C16_Witness ==
    /\ pc # "parsing"
    /\ ArgsConsumed
    /\ Len(opts) = 2
    /\ opts[1].c = "c"
    /\ opts[2].c = "f"
    /\ config_commands = <<opts[1].optarg, <<"script {">> \o opts[2].optarg \o <<"}">> >>

\* C17: help and version only set a flag that is never cleared; the flags are
\* acted on only when getopt_long has reported the end of the arguments; until
\* then every pass of the loop goes on parsing, and an option read after help
\* or version is processed as before: -s registers its directory, -d, -l and
\* -p run their directive.
C17_StickyParsingContinues ==
    [][LET r == getopt_long(argv, optind, nextchar)
       IN  /\ help_flag \in {0, 1} /\ version_flag \in {0, 1}
           /\ (help_flag = 1 => help_flag' = 1)
           /\ (version_flag = 1 => version_flag' = 1)
           /\ (pc = "parsing" /\ r.c # C_END =>
                 /\ pc' = "parsing"
                 /\ Len(opts') = Len(opts) + 1
                 /\ (Tag(r).c = "h" => help_flag' = 1)
                 /\ (Tag(r).c = "v" => version_flag' = 1)
                 /\ (r.c = "s" => script_search_dirs' = Append(script_search_dirs, r.optarg))
                 /\ (r.c \in {"d", "l", "p"} =>
                        RunLines' = Append(RunLines, ImmediateDirective(Tag(r)))))
           /\ (pc' = "exited" =>
                 /\ r.c = C_END
                 /\ help_flag = 1 \/ version_flag = 1)]_vars

C17_Witness ==
    /\ pc = "exited"
    /\ Len(opts) = 3
    /\ Tag(opts[1]).c \in {"h", "v"}
    /\ opts[2].c = "s"
    /\ opts[3].c \in {"d", "l", "p"}
    /\ script_search_dirs = <<opts[2].optarg>>
    /\ Len(RunLines) = 1

\* getopt_long is about to read a log_output option, -l or --log_output with
\* nothing attached, and finds no argument for it
LogOptionWithoutArgument ==
    LET i == IF nextchar # 0 THEN optind ELSE NextOption(argv, optind)
        n == IF nextchar # 0 THEN nextchar ELSE 2
    IN  /\ pc = "parsing"
        /\ i <= Len(argv)
        /\ \/ argv[i] = <<"--", "log_output">>
           \/ Head(argv[i]) = "-" /\ n = Len(argv[i]) /\ argv[i][n] = "l"
        /\ getopt_long(argv, optind, nextchar).optarg = NULL

\* the log_output option is given with a path: attached to it, or the next
\* element of the argument vector
LogOptionWithPath ==
    pc = "parsing" /\ getopt_long(argv, optind, nextchar).c = "l"

IsPrefix(s, t) == Len(s) <= Len(t) /\ s = SubSeq(t, 1, Len(s))

\* C19: frame of each parse step. -s appends one entry to the search path and
\* changes nothing else; -f and -c append one entry to the queue and change
\* nothing else; -d, -l and -p change neither the queue nor the search path nor
\* a flag; -h and -v (and --help, --version) set their own flag and change
\* nothing else. In every step the queue and the search path before it are
\* prefixes of those after it.
C19_Frame ==
    [][LET r == getopt_long(argv, optind, nextchar)
           t == Tag(r).c
       IN  /\ IsPrefix(config_commands, config_commands')
           /\ IsPrefix(script_search_dirs, script_search_dirs')
           /\ (pc = "parsing" /\ r.c # C_END =>
                 /\ (t = "s" =>
                        /\ Len(script_search_dirs') = Len(script_search_dirs) + 1
                        /\ UNCHANGED <<config_commands, help_flag, version_flag, trace>>)
                 /\ (t \in {"f", "c"} =>
                        /\ Len(config_commands') = Len(config_commands) + 1
                        /\ UNCHANGED <<script_search_dirs, help_flag, version_flag, trace>>)
                 /\ (t \in {"d", "l", "p"} =>
                        UNCHANGED <<config_commands, script_search_dirs, help_flag, version_flag>>)
                 /\ (t = "h" =>
                        /\ help_flag' = 1
                        /\ UNCHANGED <<config_commands, script_search_dirs, version_flag, trace>>)
                 /\ (t = "v" =>
                        /\ version_flag' = 1
                        /\ UNCHANGED <<config_commands, script_search_dirs, help_flag, trace>>))]_vars

C19_Witness ==
    /\ pc = "returned"
    /\ Len(OptsOf({"s"})) = 2
    /\ Len(script_search_dirs) > 2
    /\ SubSeq(script_search_dirs, 1, 2) = ArgsOf("s")
    /\ script_search_dirs[1] # script_search_dirs[2]

\* C20: a failure reported by command_run_line is not acted on: when the
\* directive of -d, -l or -p has failed and neither help nor version was given,
\* the run still consumes every argument, appends the default directories and
\* returns ERROR_OK.
C20_FailureNotActedOn ==
    (run_failed /\ pc # "parsing" /\ help_flag = 0 /\ version_flag = 0) =>
        /\ pc = "returned"
        /\ status = ERROR_OK
        /\ ArgsConsumed
        /\ script_search_dirs = ArgsOf("s") \o DefaultBlock

====
